---- MODULE Spec2Model ----
(***************************************************************************)
(* Verification model of Infi-RAG: validation and summarisation of chunk   *)
(* collections (App.tsx validateAndProcessData), term-frequency indexing   *)
(* and cosine retrieval (lib/cosine-similarity.ts), the IndexedDB store    *)
(* repository (lib/db.ts) and the App component's store session (effects   *)
(* and handlers of App.tsx).                                               *)
(*                                                                         *)
(* Three specifications:                                                   *)
(*   SpecVal     validateAndProcessData applied to bounded decoded inputs  *)
(*   SpecSearch  precomputeVectors / performSearch on bounded collections  *)
(*   Spec        the store session: React state, effects, handlers and     *)
(*               the asynchronous repository requests they issue           *)
(***************************************************************************)
EXTENDS Integers, Sequences, FiniteSets, TLC

VARIABLES
    \* ---- SpecVal
    raw,              \* the decoded value handed to validateAndProcessData
    outcome,          \* None, or Some(result of the call)
    \* ---- SpecSearch
    chunks,           \* the collection the index is built from
    index,            \* None, or Some([vectors, vocab]) after precomputeVectors
    query,            \* the last query searched
    results,          \* None, or Some(result of performSearch)
    queryVector,      \* None, or Some(the query vector the last search built)
    \* ---- Spec (store session)
    vectorData, summary, error, fileName, isProcessing, precomputedData,
    availableStores, selectedStoreId,      \* useState cells of App
    loadDep, vecDep,  \* dependency values the two effects last ran with
    hint,             \* localStorage 'lastSelectedStoreId'
    repo,             \* IndexedDB object store 'vectorData': id -> record
    now,              \* Date.now()
    pending,          \* asynchronous requests in flight, in issue order
    hist,             \* history of the session, read by the properties only
    \* ---- SpecRepo (repo and now, with)
    db,               \* the cached database handle of db.ts: open or not
    call,             \* the last repository call and what it returned
    ledger            \* history: the records the calls' results account for

valVars == <<raw, outcome>>
searchVars == <<chunks, index, query, results, queryVector>>
sessionVars == <<vectorData, summary, error, fileName, isProcessing,
                 precomputedData, availableStores, selectedStoreId, loadDep,
                 vecDep, hint, repo, now, pending, hist>>
repoVars == <<db, call, ledger>>
vars == <<valVars, searchVars, sessionVars, repoVars>>

\* A nullable JavaScript value: null is None, a value x is Some(x).
None == <<>>
Some(x) == <<x>>
Val(o) == o[1]

Min(a, b) == IF a < b THEN a ELSE b

RECURSIVE Perms(_)
\* All orderings of a sequence's elements (by position).
Perms(s) ==
    IF Len(s) <= 1 THEN {s}
    ELSE UNION {{<<s[i]>> \o p :
                   p \in Perms(SubSeq(s, 1, i - 1) \o SubSeq(s, i + 1, Len(s)))} :
                 i \in 1..Len(s)}

(***************************************************************************)
(* Decoded JSON values.  A property value is [t, n, s, c]: t is what       *)
(* typeof gives, n the number, s the string, c the characters of a text.   *)
(* An element of the top-level array is [kind, id, source, text,           *)
(* startIndex]: kind is "object", "array" (typeof 'object' too), "null",   *)
(* or a primitive's typeof; a property that is not there reads undefined.  *)
(***************************************************************************)
JUndef == [t |-> "undefined", n |-> 0, s |-> "", c |-> <<>>]
JStr(s) == [t |-> "string", n |-> 0, s |-> s, c |-> <<>>]
JText(c) == [t |-> "string", n |-> 0, s |-> "", c |-> c]
JNum(n) == [t |-> "number", n |-> n, s |-> "", c |-> <<>>]

Item(kind, id, source, text, startIndex) ==
    [kind |-> kind, id |-> id, source |-> source, text |-> text,
     startIndex |-> startIndex]
Chunk(id, source, text, startIndex) ==
    Item("object", JStr(id), JStr(source), JText(text), JNum(startIndex))
NonObject(kind) == Item(kind, JUndef, JUndef, JUndef, JUndef)

\* A decoded top-level value: top is "array" or what else it is.
Raw(top, items) == [top |-> top, items |-> items]

(***************************************************************************)
(* validateAndProcessData, App.tsx 75-120                                  *)
(***************************************************************************)
\* typeof item: arrays and plain objects are both 'object'.
TypeOfItem(item) ==
    IF item.kind \in {"object", "array", "null"} THEN "object" ELSE item.kind

\* itemError without the startIndex check of line 93.
itemError_noStartIndexCheck(item) ==
    IF item.kind \notin {"object", "array"} THEN "non-object"
    ELSE IF item.id.t # "string" THEN "id"
    ELSE IF item.source.t # "string" THEN "source"
    ELSE IF item.text.t # "string" THEN "text"
    ELSE ""

\* The checks of one loop iteration (81-95): "" when the item passes, else
\* the field the thrown message names.
itemError(item) ==
    IF TypeOfItem(item) # "object" \/ item.kind = "null" THEN "non-object"
    ELSE IF item.id.t # "string" THEN "id"
    ELSE IF item.source.t # "string" THEN "source"
    ELSE IF item.text.t # "string" THEN "text"
    ELSE IF item.startIndex.t # "number" THEN "startIndex"
    ELSE ""

RECURSIVE firstError(_, _)
\* The for-of loop (80-96) from element i on: <<>> when no element throws,
\* else <<index, field>> of the first throw.
firstError(items, i) ==
    IF i > Len(items) THEN <<>>
    ELSE IF itemError(items[i]) # "" THEN <<i, itemError(items[i])>>
    ELSE firstError(items, i + 1)

\* Properties every plain object inherits from Object.prototype; the string
\* each converts to in (value || 0) + 1.
InheritedText(key) ==
    CASE key = "constructor" -> "function Object() { [native code] }"
      [] key = "__proto__" -> "[object Object]"
      [] OTHER -> ""
IsInherited(key) == InheritedText(key) # ""

\* A count held by sourceCounts: a number, or the string that + 1 made of a
\* non-number.
NumCount(n) == [num |-> TRUE, n |-> n, s |-> ""]
StrCount(s) == [num |-> FALSE, n |-> 0, s |-> s]

HasOwn(obj, key) == \E i \in 1..Len(obj) : obj[i].source = key
OwnIndex(obj, key) == CHOOSE i \in 1..Len(obj) : obj[i].source = key

\* sourceCounts[key] = (sourceCounts[key] || 0) + 1  (103).  obj is the list
\* of own properties in creation order.
bumpSource(obj, key) ==
    LET cur == IF HasOwn(obj, key) THEN obj[OwnIndex(obj, key)].count
               ELSE IF IsInherited(key) THEN StrCount(InheritedText(key))
               ELSE NumCount(0)
        new == IF cur.num THEN NumCount(cur.n + 1) ELSE StrCount(cur.s \o "1")
    IN  IF key = "__proto__" THEN obj   \* the __proto__ setter drops a string
        ELSE IF HasOwn(obj, key)
             THEN [obj EXCEPT ![OwnIndex(obj, key)].count = new]
        ELSE Append(obj, [source |-> key, count |-> new])

RECURSIVE sourceCounts(_, _)
\* The forEach of 102-105 over the first k chunks.
sourceCounts(data, k) ==
    IF k = 0 THEN <<>>
    ELSE bumpSource(sourceCounts(data, k - 1), data[k].source.s)

RECURSIVE totalTextLength(_, _)
totalTextLength(data, k) ==
    IF k = 0 THEN 0
    ELSE totalTextLength(data, k - 1) + Len(data[k].text.c)

\* Keys that are canonical array indices, with their numeric value.
ArrayIndexKeys == {"0", "1", "2", "3"}
ArrayIndexValue(key) ==
    CASE key = "0" -> 0 [] key = "1" -> 1 [] key = "2" -> 2 [] key = "3" -> 3

RECURSIVE insertByIndex(_, _)
insertByIndex(sorted, e) ==
    IF sorted = <<>> THEN <<e>>
    ELSE IF ArrayIndexValue(e.source) < ArrayIndexValue(sorted[1].source)
         THEN <<e>> \o sorted
    ELSE <<sorted[1]>> \o insertByIndex(Tail(sorted), e)

RECURSIVE indexKeysAscending(_, _)
indexKeysAscending(obj, k) ==
    IF k = 0 THEN <<>>
    ELSE IF obj[k].source \in ArrayIndexKeys
         THEN insertByIndex(indexKeysAscending(obj, k - 1), obj[k])
    ELSE indexKeysAscending(obj, k - 1)

\* Object.entries / Object.keys (107, 114): own properties, array-index keys
\* first in ascending numeric order, then the others in creation order.
objectEntries(obj) ==
    indexKeysAscending(obj, Len(obj))
        \o SelectSeq(obj, LAMBDA e : e.source \notin ArrayIndexKeys)

RECURSIVE insertDescending(_, _)
\* Stable insertion for the comparator (a, b) => b - a: e goes after every
\* entry whose count is not smaller.
insertDescending(sorted, e) ==
    IF sorted = <<>> THEN <<e>>
    ELSE IF sorted[1].count.n < e.count.n THEN <<e>> \o sorted
    ELSE <<sorted[1]>> \o insertDescending(Tail(sorted), e)

RECURSIVE stableSortDescending(_, _)
stableSortDescending(entries, k) ==
    IF k = 0 THEN <<>>
    ELSE insertDescending(stableSortDescending(entries, k - 1), entries[k])

\* .sort(([, a], [, b]) => b - a)  (108): Array.prototype.sort is stable; when
\* a count is a string b - a is NaN, the comparator is not consistent and
\* the order is implementation-defined.
sortEntries(entries) ==
    IF \A i \in 1..Len(entries) : entries[i].count.num
    THEN {stableSortDescending(entries, Len(entries))}
    ELSE Perms(entries)

TopN == 10

\* The summaries lines 100-117 can produce for validated data.
summaries(data) ==
    LET obj == sourceCounts(data, Len(data))
    IN  {[totalChunks |-> Len(data),
          uniqueSources |-> Len(objectEntries(obj)),
          topSources |-> SubSeq(sorted, 1, Min(TopN, Len(sorted))),
          totalTextLength |-> totalTextLength(data, Len(data))] :
            sorted \in sortEntries(objectEntries(obj))}

NoSummary ==
    [totalChunks |-> 0, uniqueSources |-> 0, topSources |-> <<>>,
     totalTextLength |-> 0]

\* The outcomes of validateAndProcessData(data): a throw (ok = FALSE, with
\* where and what) or {processedData, summaryData}.
validateAndProcessData(data) ==
    IF data.top # "array"
    THEN {[ok |-> FALSE, thrown |-> <<0, "not-a-list">>,
           processedData |-> <<>>, summaryData |-> NoSummary]}
    ELSE IF firstError(data.items, 1) # <<>>
    THEN {[ok |-> FALSE, thrown |-> firstError(data.items, 1),
           processedData |-> <<>>, summaryData |-> NoSummary]}
    ELSE {[ok |-> TRUE, thrown |-> <<>>, processedData |-> data.items,
           summaryData |-> s] : s \in summaries(data.items)}

(***************************************************************************)
(* lib/cosine-similarity.ts                                                *)
(***************************************************************************)
\* String.prototype.toLowerCase on the characters the model uses.
toLowerCase(c) ==
    CASE c = "A" -> "a" [] c = "B" -> "b" [] c = "C" -> "c" [] OTHER -> c

\* \w of a JavaScript regular expression without the u flag.
WordChars ==
    {"a", "b", "c", "d", "e", "f", "g", "h", "i", "j", "k", "l", "m", "n",
     "o", "p", "q", "r", "s", "t", "u", "v", "w", "x", "y", "z",
     "A", "B", "C", "D", "E", "F", "G", "H", "I", "J", "K", "L", "M", "N",
     "O", "P", "Q", "R", "S", "T", "U", "V", "W", "X", "Y", "Z",
     "0", "1", "2", "3", "4", "5", "6", "7", "8", "9", "_"}

\* What String.prototype.trim removes.
WhiteSpace == {" ", "\t", "\n"}

RECURSIVE wordRuns(_, _, _)
\* The matches of /\b\w+\b/g in text from position i on, cur being the run
\* of word characters open at i: the maximal runs of word characters.
wordRuns(text, i, cur) ==
    IF i > Len(text) THEN (IF cur = <<>> THEN <<>> ELSE <<cur>>)
    ELSE IF text[i] \in WordChars THEN wordRuns(text, i + 1, Append(cur, text[i]))
    ELSE (IF cur = <<>> THEN <<>> ELSE <<cur>>) \o wordRuns(text, i + 1, <<>>)

\* tokenize (4-6)
tokenize(text) ==
    wordRuns([i \in 1..Len(text) |-> toLowerCase(text[i])], 1, <<>>)

RECURSIVE addTokens_indexPerToken(_, _, _)
\* addTokens with index++ outside the test of line 14.
addTokens_indexPerToken(st, tokens, k) ==
    IF k > Len(tokens) THEN st
    ELSE IF tokens[k] \in DOMAIN st.vocab
         THEN addTokens_indexPerToken([st EXCEPT !.index = @ + 1], tokens, k + 1)
    ELSE addTokens_indexPerToken([vocab |-> st.vocab @@ (tokens[k] :> st.index),
                                  index |-> st.index + 1], tokens, k + 1)

RECURSIVE addTokens(_, _, _)
\* tokens.forEach of 13-17 from token k on; st is [vocab, index].
addTokens(st, tokens, k) ==
    IF k > Len(tokens) THEN st
    ELSE IF tokens[k] \in DOMAIN st.vocab THEN addTokens(st, tokens, k + 1)
    ELSE addTokens([vocab |-> st.vocab @@ (tokens[k] :> st.index),
                    index |-> st.index + 1], tokens, k + 1)

RECURSIVE addDocs(_, _, _)
addDocs(st, tokenizedDocs, d) ==
    IF d > Len(tokenizedDocs) THEN st
    ELSE addDocs(addTokens(st, tokenizedDocs[d], 1), tokenizedDocs, d + 1)

\* createVocabulary (9-20): the Map from token to index.
createVocabulary(tokenizedDocs) ==
    addDocs([vocab |-> <<>>, index |-> 0], tokenizedDocs, 1).vocab

RECURSIVE countTokens_presence(_, _, _, _)
\* countTokens with vector[tokenIndex] = 1 for vector[tokenIndex]++.
countTokens_presence(vector, tokens, vocab, k) ==
    IF k > Len(tokens) THEN vector
    ELSE IF tokens[k] \in DOMAIN vocab
         THEN countTokens_presence([vector EXCEPT ![vocab[tokens[k]] + 1] = 1],
                                   tokens, vocab, k + 1)
    ELSE countTokens_presence(vector, tokens, vocab, k + 1)

RECURSIVE countTokens(_, _, _, _)
countTokens(vector, tokens, vocab, k) ==
    IF k > Len(tokens) THEN vector
    ELSE IF tokens[k] \in DOMAIN vocab
         THEN countTokens([vector EXCEPT ![vocab[tokens[k]] + 1] = @ + 1],
                          tokens, vocab, k + 1)
    ELSE countTokens(vector, tokens, vocab, k + 1)

\* createTfVector (23-32); position i + 1 of the sequence is vector[i].
createTfVector(tokens, vocab) ==
    countTokens([i \in 1..Cardinality(DOMAIN vocab) |-> 0], tokens, vocab, 1)

RECURSIVE sumProducts(_, _, _)
sumProducts(vecA, vecB, k) ==
    IF k = 0 THEN 0 ELSE sumProducts(vecA, vecB, k - 1) + vecA[k] * vecB[k]

\* The IEEE-754 double that 44-49 compute for an integer dot product d and
\* squared magnitudes a <= b, d / (Math.sqrt(a) * Math.sqrt(b)), against the
\* double nearest to the real number d / sqrt(a * b): the triples whose
\* result lies two units in the last place below it, one below, one above.
\* Every other triple with d * d <= a * b <= 36 gives the nearest double.
TwoUlpsBelow ==
    {<<1, 2, 2>>, <<2, 2, 2>>, <<1, 5, 5>>, <<2, 5, 5>>, <<4, 5, 5>>,
     <<5, 5, 5>>}
OneUlpBelow ==
    {<<1, 1, 2>>, <<1, 2, 3>>, <<2, 2, 3>>, <<1, 2, 4>>, <<2, 2, 4>>,
     <<1, 3, 5>>, <<2, 3, 5>>, <<3, 5, 5>>}
OneUlpAbove ==
    {<<1, 1, 3>>, <<1, 1, 6>>, <<2, 1, 6>>, <<1, 2, 6>>, <<2, 2, 6>>,
     <<3, 2, 6>>, <<1, 3, 3>>, <<2, 3, 3>>, <<3, 3, 3>>, <<1, 3, 4>>,
     <<2, 3, 4>>, <<3, 3, 4>>, <<1, 3, 6>>, <<2, 3, 6>>, <<4, 3, 6>>,
     <<1, 4, 6>>, <<2, 4, 6>>, <<3, 4, 6>>, <<4, 4, 6>>, <<1, 6, 6>>,
     <<2, 6, 6>>, <<3, 6, 6>>, <<4, 6, 6>>, <<5, 6, 6>>, <<6, 6, 6>>}

\* The rounding of the quotient in units in the last place, for the
\* arguments the table covers (a function: other arguments have no value).
roundingUlps ==
    [t \in (0..6) \X (1..6) \X (1..6) |->
        LET k == <<t[1], Min(t[2], t[3]), IF t[2] < t[3] THEN t[3] ELSE t[2]>>
        IN  IF k \in TwoUlpsBelow THEN 0 - 2
            ELSE IF k \in OneUlpBelow THEN 0 - 1
            ELSE IF k \in OneUlpAbove THEN 1
            ELSE 0]

\* A score is a double: the one ulps units in the last place away from the
\* double nearest to the real number num / sqrt(den2), num >= 0, den2 > 0.
\* Distinct real numbers of this form are much further apart than the
\* rounding, so doubles compare as the reals do, and as ulps when those
\* are equal.
Score(num, den2, ulps) == [num |-> num, den2 |-> den2, ulps |-> ulps]
ScoreZero == Score(0, 1, 0)
ScorePositive(s) == s.num > 0
ScoreLess(a, b) ==
    \/ a.num * a.num * b.den2 < b.num * b.num * a.den2
    \/ /\ a.num * a.num * b.den2 = b.num * b.num * a.den2
       /\ a.ulps < b.ulps
ScoreEqual(a, b) ==
    /\ a.num * a.num * b.den2 = b.num * b.num * a.den2
    /\ a.ulps = b.ulps
ScoreIsOne(s) == s.num * s.num = s.den2 /\ s.ulps = 0

\* cosineSimilarity without the division by the magnitudes.
cosineSimilarity_dotProduct(vecA, vecB) ==
    Score(sumProducts(vecA, vecB, Len(vecA)), 1, 0)

\* cosineSimilarity (35-50)
cosineSimilarity(vecA, vecB) ==
    LET dotProduct == sumProducts(vecA, vecB, Len(vecA))
        magA2 == sumProducts(vecA, vecA, Len(vecA))
        magB2 == sumProducts(vecB, vecB, Len(vecA))
    IN  IF magA2 = 0 \/ magB2 = 0 THEN ScoreZero
        ELSE Score(dotProduct, magA2 * magB2,
                   roundingUlps[<<dotProduct, magA2, magB2>>])

\* precomputeVectors (53-58)
precomputeVectors(cs) ==
    LET tokenizedDocs == [i \in 1..Len(cs) |-> tokenize(cs[i].text.c)]
        vocab == createVocabulary(tokenizedDocs)
    IN  [vectors |-> [i \in 1..Len(cs) |-> createTfVector(tokenizedDocs[i], vocab)],
         vocab |-> vocab]

RECURSIVE insertByScore_tiesReversed(_, _)
\* insertByScore putting a result before the results of equal score.
insertByScore_tiesReversed(sorted, r) ==
    IF sorted = <<>> THEN <<r>>
    ELSE IF ~ScoreLess(r.score, sorted[1].score) THEN <<r>> \o sorted
    ELSE <<sorted[1]>> \o insertByScore_tiesReversed(Tail(sorted), r)

RECURSIVE insertByScore(_, _)
\* Stable insertion for the comparator (a, b) => b.score - a.score.
insertByScore(sorted, r) ==
    IF sorted = <<>> THEN <<r>>
    ELSE IF ScoreLess(sorted[1].score, r.score) THEN <<r>> \o sorted
    ELSE <<sorted[1]>> \o insertByScore(Tail(sorted), r)

RECURSIVE sortByScore(_, _)
sortByScore(rs, k) ==
    IF k = 0 THEN <<>> ELSE insertByScore(sortByScore(rs, k - 1), rs[k])

TopK == 3

\* keepResult with >= for >.
keepResult_nonNegative(r) == r.score.num >= 0

\* The score filter of line 79.
keepResult(r) == ScorePositive(r.score)

\* The slice of line 81.
sliceTop(rs) == SubSeq(rs, 1, Min(TopK, Len(rs)))

\* The sort of line 80.
rankResults(rs) == sortByScore(rs, Len(rs))

\* !query.trim() (67)
isBlank(q) == \A i \in 1..Len(q) : q[i] \in WhiteSpace

\* performSearch (61-82).  A result is [chunk, score, at]: at is the position
\* of the chunk object in chunks.
performSearch(q, cs, vectors, vocab) ==
    IF isBlank(q) THEN <<>>
    ELSE LET qv == createTfVector(tokenize(q), vocab)
             scored == [i \in 1..Len(cs) |->
                          [chunk |-> cs[i],
                           score |-> cosineSimilarity(qv, vectors[i]),
                           at |-> i]]
         IN  sliceTop(rankResults(SelectSeq(scored, keepResult)))

\* queryVectorBuilt without the early return of 67-69.
queryVectorBuilt_always(q, vocab) == Some(createTfVector(tokenize(q), vocab))

\* The query vector a call of performSearch builds (67-71): none when the
\* query is blank.
queryVectorBuilt(q, vocab) ==
    IF isBlank(q) THEN None ELSE Some(createTfVector(tokenize(q), vocab))

\* indexAfterSearch when createTfVector adds the tokens it does not find.
indexAfterSearch_learnsTokens(q, idx) ==
    [idx EXCEPT !.vocab =
        addTokens([vocab |-> idx.vocab, index |-> Cardinality(DOMAIN idx.vocab)],
                  tokenize(q), 1).vocab]

\* What a call of performSearch leaves of the index it was given (61-82):
\* createTfVector fills a new array (24) and only reads the vocabulary (26);
\* map, filter, sort and slice (73-81) work on new arrays.
indexAfterSearch(q, idx) == idx

\* What the contract asks of an input: a list of non-null objects with string
\* id, source and text and a numeric startIndex.
WellFormed(data) ==
    /\ data.top = "array"
    /\ \A i \in 1..Len(data.items) :
          /\ data.items[i].kind \in {"object", "array"}
          /\ data.items[i].id.t = "string"
          /\ data.items[i].source.t = "string"
          /\ data.items[i].text.t = "string"
          /\ data.items[i].startIndex.t = "number"

(***************************************************************************)
(* Variables a specification does not use stay at these values.            *)
(***************************************************************************)
ValOff == raw = Raw("null", <<>>) /\ outcome = None
SearchOff ==
    /\ chunks = <<>> /\ index = None /\ query = <<>> /\ results = None
    /\ queryVector = None
SessionOff ==
    /\ vectorData = None /\ summary = None /\ error = None /\ fileName = ""
    /\ isProcessing = FALSE /\ precomputedData = None
    /\ availableStores = <<>> /\ selectedStoreId = None
    /\ loadDep = None /\ vecDep = None /\ hint = None
    /\ repo = <<>> /\ now = 0 /\ pending = <<>> /\ hist = <<>>

\* A repository call: op is "create", "get", "delete" or "list"; existed
\* says whether id was a key when the call was made, fault whether the
\* storage failed it, ok whether it resolved; record is what get resolved
\* with, stores what list resolved with.
Call(op, id, existed, fault, ok, record, stores) ==
    [op |-> op, id |-> id, existed |-> existed, fault |-> fault, ok |-> ok,
     record |-> record, stores |-> stores]
NoCall == Call("", 0, FALSE, FALSE, FALSE, None, <<>>)
RepoOff == db = FALSE /\ call = NoCall /\ ledger = <<>>

(***************************************************************************)
(* SpecVal: validateAndProcessData on every decoded value of at most       *)
(* MaxItems elements drawn from ValItems.                                  *)
(***************************************************************************)
MaxItems == 3

ValSources == {"doc1", "2", "1", "__proto__", "constructor"}

ValItems ==
    {Chunk("a", src, <<"a", "b">>, 0) : src \in ValSources}
    \cup {Chunk("b", "doc1", <<"a">>, 0),
          Chunk("a", "doc1", <<"a", "b">>, -1),
          NonObject("null"), NonObject("number"), NonObject("string"),
          NonObject("array"), NonObject("object"),
          Item("object", JNum(1), JStr("doc1"), JText(<<"a">>), JNum(0)),
          Item("object", JStr("a"), JUndef, JText(<<"a">>), JNum(0)),
          Item("object", JStr("a"), JStr("doc1"), JNum(1), JNum(0)),
          Item("object", JStr("a"), JStr("doc1"), JText(<<"a">>), JStr("0"))}

ValInputs ==
    {Raw(top, <<>>) : top \in {"null", "object", "string", "number"}}
    \cup {Raw("array", items) :
            items \in UNION {[1..n -> ValItems] : n \in 0..MaxItems}}

ValInit ==
    raw \in ValInputs /\ outcome = None /\ SearchOff /\ SessionOff /\ RepoOff

\* The call validateAndProcessData(raw).
Validate ==
    /\ outcome = None
    /\ \E r \in validateAndProcessData(raw) : outcome' = Some(r)
    /\ UNCHANGED <<raw, searchVars, sessionVars, repoVars>>

ValNext == Validate

SpecVal == ValInit /\ [][ValNext]_vars

(***************************************************************************)
(* SpecSearch: an index built over every collection of at most MaxChunks   *)
(* chunks with texts from SearchTexts, searched with SearchQueries.        *)
(***************************************************************************)
MaxChunks == 4

SearchTexts ==
    {<<"a">>, <<"b", "-", "A">>, <<"c", " ", "a", " ", "a">>, <<" ">>}

SearchQueries ==
    {<<>>, <<" ">>, <<"A", " ", "b">>, <<"c", "!", "b">>, <<"f", "o", "x">>}

SearchCollections ==
    UNION {[1..n -> {Chunk("c", "doc1", t, 0) : t \in SearchTexts}] :
             n \in 0..MaxChunks}

\* The collection of the documented example.
ExampleCollection ==
    <<Chunk("a", "doc1", <<"r", "e", "d", " ", "f", "o", "x">>, 0),
      Chunk("b", "doc1", <<"b", "l", "u", "e", " ", "s", "k", "y">>, 10)>>

SearchInit ==
    /\ chunks \in SearchCollections \cup {ExampleCollection}
    /\ index = None /\ query = <<>> /\ results = None /\ queryVector = None
    /\ ValOff /\ SessionOff /\ RepoOff

\* precomputeVectors(chunks)
Build ==
    /\ index = None
    /\ index' = Some(precomputeVectors(chunks))
    /\ UNCHANGED <<chunks, query, results, queryVector, valVars, sessionVars, repoVars>>

\* performSearch(q, chunks, vectors, vocab) on the built index
Search(q) ==
    /\ index # None
    /\ query' = q
    /\ results' = Some(performSearch(q, chunks, Val(index).vectors, Val(index).vocab))
    /\ queryVector' = queryVectorBuilt(q, Val(index).vocab)
    /\ index' = Some(indexAfterSearch(q, Val(index)))
    /\ UNCHANGED <<chunks, valVars, sessionVars, repoVars>>

\* The queries searched: SearchQueries and the text of every chunk.
SearchNext ==
    \/ Build
    \/ \E q \in SearchQueries \cup {chunks[i].text.c : i \in 1..Len(chunks)} :
          Search(q)

SpecSearch == SearchInit /\ [][SearchNext]_vars

(***************************************************************************)
(* Spec: the store session of App.tsx over the IndexedDB repository.       *)
(*                                                                         *)
(* A state is what one render of App shows.  The handlers and the          *)
(* continuations of awaited requests are atomic; the effects of a render   *)
(* run (RunEffects) before anything else happens.  The repository and the  *)
(* localStorage hint outlive the process; records persisted before this    *)
(* run are not known to be valid, which is why loadStoreContent validates  *)
(* what it reads.                                                          *)
(***************************************************************************)
NumOld == 2        \* ids 1..NumOld may hold records persisted by earlier runs
MaxTicks == 1      \* Date.now() is read at most this far past its first value
MaxPending == 2    \* the user issues nothing new with this many requests in flight
MaxOps == 2        \* user operations (clicks, uploads, reloads) in a behaviour

ContentA == Raw("array", <<Chunk("a1", "doc1", <<"a">>, 0)>>)
ContentB ==
    Raw("array", <<Chunk("b1", "doc2", <<"b">>, 0),
                   Chunk("b2", "doc2", <<"a", " ", "b">>, 5)>>)
ContentBad == Raw("array", <<Chunk("a1", "doc1", <<"a">>, 0), NonObject("null")>>)
NoContent == Raw("null", <<>>)

\* What the user can drop on the uploader: st is "json" (readable, parses to
\* data), "unparsable" (JSON.parse throws) or "unreadable" (reader.onerror).
File(name, st, data) == [name |-> name, st |-> st, data |-> data]
Files ==
    {File("b.json", "json", ContentB),
     File("bad.json", "json", ContentBad), File("junk.json", "unparsable", NoContent),
     File("gone.json", "unreadable", NoContent)}

\* StoredVectorStore without its key (db.ts 7-11)
Record(name, content) == [fileName |-> name, content |-> content]
OldRecords ==
    {Record("a.json", ContentA), Record("b.json", ContentB),
     Record("bad.json", ContentBad)}

SessionQueries == {<<"a">>, <<"b">>}

\* A request in flight.
Task(kind, id, name, st, content, stores) ==
    [kind |-> kind, id |-> id, fileName |-> name, st |-> st,
     content |-> content, stores |-> stores]
MetaTask == Task("meta", 0, "", "", NoContent, <<>>)
LoadTask(id) == Task("load", id, "", "", NoContent, <<>>)
ReadTask(f) == Task("read", 0, f.name, f.st, f.data, <<>>)
SaveTask(id, name, content) == Task("save", id, name, "", content, <<>>)
DeleteTask(id, stores) == Task("delete", id, "", "", NoContent, stores)

Remove(seq, i) == SubSeq(seq, 1, i - 1) \o SubSeq(seq, i + 1, Len(seq))

\* IndexedDB runs transactions of overlapping scope in the order they were
\* created unless both are readonly; a FileReader is not a transaction.
IsWrite(t) == t.kind \in {"save", "delete"}
IsDb(t) == t.kind # "read"
CanComplete(i) ==
    \/ ~IsDb(pending[i])
    \/ \A j \in 1..(i - 1) :
          IsDb(pending[j]) => ~IsWrite(pending[j]) /\ ~IsWrite(pending[i])

Err(at, msg) == Some([at |-> at, msg |-> msg])

RECURSIVE insertById(_, _)
\* Stable insertion for the comparator (a, b) => b.id - a.id.
insertById(sorted, m) ==
    IF sorted = <<>> THEN <<m>>
    ELSE IF sorted[1].id < m.id THEN <<m>> \o sorted
    ELSE <<sorted[1]>> \o insertById(Tail(sorted), m)

sortByIdDescending_unsorted(ms, k) == SubSeq(ms, 1, k)

RECURSIVE sortByIdDescending(_, _)
\* .sort((a, b) => b.id - a.id) of the first k entries (db.ts 69, App.tsx 225)
sortByIdDescending(ms, k) ==
    IF k = 0 THEN <<>> ELSE insertById(sortByIdDescending(ms, k - 1), ms[k])

RECURSIVE getAll(_, _)
\* store.getAll(): the records with key >= k, in ascending key order.
getAll(store, k) ==
    IF \A id \in DOMAIN store : id < k THEN <<>>
    ELSE IF k \in DOMAIN store
         THEN <<[id |-> k, fileName |-> store[k].fileName]>> \o getAll(store, k + 1)
    ELSE getAll(store, k + 1)

\* getAllVectorStoresMeta (db.ts 60-74)
getAllVectorStoresMeta(store) ==
    sortByIdDescending(getAll(store, 0), Len(getAll(store, 0)))

\* The initial loader replaces the whole page (371-373).
LoaderShown == isProcessing /\ availableStores = <<>> /\ selectedStoreId = None

EffectsPending == selectedStoreId # loadDep \/ vectorData # vecDep
Settled == ~EffectsPending
LoadInFlight == \E i \in 1..Len(pending) : pending[i].kind = "load"

\* listed: loadFromDB has received the list since the last mount; cleared:
\* the last completion of a delete and how it ended, until the user's next
\* operation.
NoHist ==
    [created |-> {}, lastFail |-> None, race |-> None, retry |-> None,
     overlap |-> FALSE, ops |-> 0, listed |-> FALSE, cleared |-> None]

\* The user can act: the page is settled, not replaced by the loader, and the
\* bounds of the model leave room.
CanAct == Settled /\ Len(pending) < MaxPending /\ hist.ops < MaxOps

\* The state after the first render and its effects: loadFromDB has issued
\* the metadata request (133-154), the other effects found nothing to load.
Mounted ==
    /\ vectorData = None /\ summary = None /\ error = None /\ fileName = ""
    /\ isProcessing = TRUE /\ precomputedData = None
    /\ availableStores = <<>> /\ selectedStoreId = None
    /\ loadDep = None /\ vecDep = None
    /\ pending = <<MetaTask>>

Init ==
    /\ Mounted
    /\ \E ids \in SUBSET (1..NumOld) : repo \in [ids -> OldRecords]
    /\ hint \in {None} \cup {Some(id) : id \in 1..NumOld}
    /\ now = NumOld + 1
    /\ hist = NoHist
    /\ ValOff /\ SearchOff /\ RepoOff

startupSelection_newest(storesMeta) ==
    IF Len(storesMeta) > 0 THEN Some(storesMeta[1].id) ELSE selectedStoreId

\* The store loadFromDB selects (140-145): the one localStorage names if the
\* list has it, else the first of the list, else none is set.
startupSelection(storesMeta) ==
    IF hint # None
       /\ \E k \in 1..Len(storesMeta) : storesMeta[k].id = Val(hint)
    THEN hint
    ELSE IF Len(storesMeta) > 0 THEN Some(storesMeta[1].id)
    ELSE selectedStoreId

\* loadFromDB after the await (137-151)
MetaDone(i) ==
    /\ Settled /\ pending[i].kind = "meta" /\ CanComplete(i)
    /\ pending' = Remove(pending, i)
    /\ isProcessing' = FALSE
    /\ \E dbOk \in BOOLEAN :
          IF dbOk
          THEN LET storesMeta == getAllVectorStoresMeta(repo)
               IN  /\ availableStores' = storesMeta
                   /\ selectedStoreId' = startupSelection(storesMeta)
                   /\ error' = error
                   /\ hist' = [hist EXCEPT !.listed = TRUE]
          ELSE /\ error' = Err("loading from local storage", "Unknown error")
               /\ UNCHANGED <<availableStores, selectedStoreId, hist>>
    /\ UNCHANGED <<vectorData, summary, fileName, precomputedData, loadDep,
                   vecDep, hint, repo, now, valVars, searchVars, repoVars>>

\* The effects of the committed render, in source order: the load effect
\* (157-189, up to its await) when selectedStoreId changed, then the
\* precompute effect (192-201) when vectorData changed.  Their state updates
\* are applied in the order they were queued.
RunEffects ==
    /\ EffectsPending
    /\ LET runLoad == selectedStoreId # loadDep
           runVec == vectorData # vecDep
           loading == runLoad /\ selectedStoreId # None
       IN  /\ loadDep' = selectedStoreId
           /\ vecDep' = vectorData
           /\ vectorData' = IF runLoad THEN None ELSE vectorData
           /\ summary' = IF runLoad THEN None ELSE summary
           /\ error' = IF runLoad THEN None ELSE error
           /\ fileName' = IF runLoad THEN "" ELSE fileName
           /\ precomputedData' =
                IF runVec
                THEN (IF vectorData # None
                      THEN Some(precomputeVectors(Val(vectorData))) ELSE None)
                ELSE IF runLoad THEN None ELSE precomputedData
           /\ isProcessing' = IF loading THEN TRUE ELSE isProcessing
           /\ hint' = IF loading THEN selectedStoreId ELSE hint
           /\ pending' = IF loading
                         THEN Append(pending, LoadTask(Val(selectedStoreId)))
                         ELSE pending
           /\ hist' = IF loading
                      THEN [hist EXCEPT !.overlap = pending # <<>>]
                      ELSE hist
    /\ UNCHANGED <<availableStores, selectedStoreId, repo, now,
                   valVars, searchVars, repoVars>>

\* What getVectorStore and the validation of 169-177 give for a load:
\* "ok", or the message of the error thrown.
loadOutcome(t, dbOk, r) ==
    IF ~dbOk THEN "Unknown error"
    ELSE IF t.id \notin DOMAIN repo THEN "Selected store not found in the database."
    ELSE IF ~r.ok THEN "Invalid"
    ELSE "ok"

\* The record of two overlapping selections after the load of id ended res.
raceAfterLoad(id, res) ==
    IF hist.race = None THEN None
    ELSE IF Val(hist.race).b = id THEN Some([Val(hist.race) EXCEPT !.bRes = res])
    ELSE IF Val(hist.race).a = id THEN Some([Val(hist.race) EXCEPT !.aRes = res])
    ELSE hist.race

\* hintAfterLoad without the removeItem of line 182.
hintAfterLoad_kept(res) == hint

\* localStorage 'lastSelectedStoreId' after a load: removed in the catch (182).
hintAfterLoad(res) == IF res = "ok" THEN hint ELSE None

\* loadStoreContent after the await (169-185)
LoadDone(i) ==
    /\ Settled /\ pending[i].kind = "load" /\ CanComplete(i)
    /\ pending' = Remove(pending, i)
    /\ isProcessing' = FALSE
    /\ \E dbOk \in BOOLEAN :
       \E r \in (IF pending[i].id \in DOMAIN repo
                 THEN validateAndProcessData(repo[pending[i].id].content)
                 ELSE validateAndProcessData(NoContent)) :
          LET t == pending[i]
              res == loadOutcome(t, dbOk, r)
          IN  IF res = "ok"
              THEN /\ fileName' = repo[t.id].fileName
                   /\ vectorData' = Some(r.processedData)
                   /\ summary' = Some(r.summaryData)
                   /\ hist' = [hist EXCEPT !.race = raceAfterLoad(t.id, res)]
                   /\ hint' = hintAfterLoad(res)
                   /\ UNCHANGED <<error, selectedStoreId>>
              ELSE /\ error' = Err("loading store", res)
                   /\ selectedStoreId' = None
                   /\ hint' = hintAfterLoad(res)
                   /\ hist' = [hist EXCEPT
                                 !.race = raceAfterLoad(t.id, res),
                                 !.lastFail = Some([id |-> t.id, msg |-> res,
                                                    alone |-> Len(pending) = 1
                                                             /\ ~hist.overlap])]
                   /\ UNCHANGED <<fileName, vectorData, summary>>
    /\ UNCHANGED <<precomputedData, availableStores, loadDep, vecDep, repo, now,
                   valVars, searchVars, repoVars>>

\* A click on a store of the list (429)
SelectStore(id) ==
    /\ CanAct /\ ~LoaderShown
    /\ \E k \in 1..Len(availableStores) : availableStores[k].id = id
    /\ selectedStoreId # Some(id)
    /\ selectedStoreId' = Some(id)
    /\ hist' = [hist EXCEPT
                  !.ops = @ + 1, !.lastFail = None, !.retry = None,
                  !.cleared = None,
                  !.race = IF Len(pending) = 1 /\ pending[1].kind = "load"
                              /\ pending[1].id # id
                           THEN Some([a |-> pending[1].id, b |-> id,
                                      aRes |-> "", bRes |-> ""])
                           ELSE None]
    /\ UNCHANGED <<vectorData, summary, error, fileName, isProcessing,
                   precomputedData, availableStores, loadDep, vecDep, hint, repo,
                   now, pending, valVars, searchVars, repoVars>>

\* A file chosen or dropped: FileUploader 13-18 / 37-45, then handleFileSelect
\* up to reader.readAsText (208-214, 239)
Upload(f) ==
    /\ CanAct /\ ~LoaderShown
    /\ isProcessing' = TRUE
    /\ vectorData' = None /\ summary' = None /\ error' = None /\ fileName' = ""
    /\ precomputedData' = None
    /\ pending' = Append(pending, ReadTask(f))
    /\ hist' = [hist EXCEPT !.ops = @ + 1, !.lastFail = None, !.retry = None,
                              !.race = None, !.overlap = @ \/ pending # <<>>,
                              !.cleared = None]
    /\ UNCHANGED <<availableStores, selectedStoreId, loadDep, vecDep, hint, repo,
                   now, valVars, searchVars, repoVars>>

\* readOutcome without the validation of line 221.
readOutcome_noValidation(t, r) ==
    IF t.st = "unreadable" THEN "Error reading the file."
    ELSE IF t.st = "unparsable" THEN "Error processing file: JSON"
    ELSE "ok"

\* What reading, JSON.parse and validateAndProcessData (216-221, 235-238)
\* give for an uploaded file: "ok", or the error reported.
readOutcome(t, r) ==
    IF t.st = "unreadable" THEN "Error reading the file."
    ELSE IF t.st = "unparsable" THEN "Error processing file: JSON"
    ELSE IF ~r.ok THEN "Error processing file: Invalid"
    ELSE "ok"

\* Date.now() when saveVectorData reads it (db.ts 51): the clock has not gone
\* back since it was last read, and may have advanced.
Clock == {t \in now..(now + 1) : t <= NumOld + 1 + MaxTicks}

processingAfterRead_kept(res) == isProcessing

\* isProcessing after the file was read: setProcessing(false) in the catch
\* (232) and in reader.onerror (237), untouched before the save (223).
processingAfterRead(res) == IF res = "ok" THEN isProcessing ELSE FALSE

\* reader.onload up to the await of saveVectorData (215-223), or
\* reader.onerror (235-238); saveVectorData takes Date.now() as the id.
ReadDone(i) ==
    /\ Settled /\ pending[i].kind = "read"
    /\ \E r \in validateAndProcessData(pending[i].content) :
          LET t == pending[i]
              res == readOutcome(t, r)
          IN  IF res = "ok"
              THEN /\ \E id \in Clock :
                         /\ now' = id
                         /\ pending' = Append(Remove(pending, i),
                                              SaveTask(id, t.fileName, t.content))
                   /\ isProcessing' = processingAfterRead(res)
                   /\ error' = error
              ELSE /\ pending' = Remove(pending, i)
                   /\ error' = Err("upload", res)
                   /\ isProcessing' = processingAfterRead(res)
                   /\ now' = now
    /\ UNCHANGED <<vectorData, summary, fileName, precomputedData,
                   availableStores, selectedStoreId, loadDep, vecDep, hint, repo,
                   hist, valVars, searchVars, repoVars>>

\* saveVectorData's store.add (db.ts 46-58) and handleFileSelect after the
\* await (225-233)
SaveDone(i) ==
    /\ Settled /\ pending[i].kind = "save" /\ CanComplete(i)
    /\ pending' = Remove(pending, i)
    /\ \E dbOk \in BOOLEAN :
          LET t == pending[i]
          IN  IF dbOk /\ t.id \notin DOMAIN repo
              THEN /\ repo' = repo @@ (t.id :> Record(t.fileName, t.content))
                   /\ availableStores' =
                        LET listed == <<[id |-> t.id, fileName |-> t.fileName]>>
                                          \o availableStores
                        IN  sortByIdDescending(listed, Len(listed))
                   /\ selectedStoreId' = Some(t.id)
                   /\ hist' = [hist EXCEPT !.created = @ \cup {t.id}]
                   /\ UNCHANGED <<error, isProcessing>>
              ELSE /\ error' = Err("upload", "Error processing file: An unknown error occurred.")
                   /\ isProcessing' = FALSE
                   /\ UNCHANGED <<repo, availableStores, selectedStoreId, hist>>
    /\ UNCHANGED <<vectorData, summary, fileName, precomputedData, loadDep,
                   vecDep, hint, now, valVars, searchVars, repoVars>>

\* "Clear Stored Data" (470-472): handleClearData up to its await (242-247).
\* The handler keeps the selectedStoreId and availableStores of its render.
ClearData ==
    /\ CanAct /\ ~LoaderShown
    /\ ~isProcessing /\ vectorData # None /\ summary # None
    /\ precomputedData # None /\ selectedStoreId # None
    /\ pending' = Append(pending, DeleteTask(Val(selectedStoreId), availableStores))
    /\ hist' = [hist EXCEPT !.ops = @ + 1, !.lastFail = None, !.retry = None,
                              !.race = None, !.overlap = @ \/ pending # <<>>,
                              !.cleared = None]
    /\ UNCHANGED <<vectorData, summary, error, fileName, isProcessing,
                   precomputedData, availableStores, selectedStoreId, loadDep,
                   vecDep, hint, repo, now, valVars, searchVars, repoVars>>

storesAfterDelete_optimistic(t, dbOk) ==
    SelectSeq(t.stores, LAMBDA m : m.id # t.id)

\* The list after handleClearData: newStores, filtered from the list of the
\* render of the click (249-250), or the list as it is when the delete
\* threw (262-265).
storesAfterDelete(t, dbOk) ==
    IF dbOk THEN SelectSeq(t.stores, LAMBDA m : m.id # t.id)
    ELSE availableStores

\* deleteVectorStore (db.ts 90-100) and handleClearData after the await
\* (249-265)
DeleteDone(i) ==
    /\ Settled /\ pending[i].kind = "delete" /\ CanComplete(i)
    /\ pending' = Remove(pending, i)
    /\ \E dbOk \in BOOLEAN :
          LET t == pending[i]
              newStores == storesAfterDelete(t, dbOk)
          IN  /\ hist' = [hist EXCEPT
                            !.cleared = Some([id |-> t.id, ok |-> dbOk,
                                              alone |-> Len(pending) = 1
                                                        /\ ~hist.overlap])]
              /\ IF ~dbOk
                 THEN /\ error' = Err("clearing local storage", "Unknown error")
                      /\ availableStores' = newStores
                      /\ UNCHANGED <<repo, selectedStoreId, vectorData, summary,
                                     fileName, precomputedData, hint>>
                 ELSE /\ repo' = [id \in DOMAIN repo \ {t.id} |-> repo[id]]
                      /\ availableStores' = newStores
                      /\ IF Len(newStores) > 0
                         THEN /\ selectedStoreId' = Some(newStores[1].id)
                              /\ UNCHANGED <<vectorData, summary, error, fileName,
                                             precomputedData, hint>>
                         ELSE /\ selectedStoreId' = None
                              /\ vectorData' = None /\ summary' = None
                              /\ error' = None /\ fileName' = ""
                              /\ precomputedData' = None
                              /\ hint' = None
    /\ UNCHANGED <<isProcessing, loadDep, vecDep, now, valVars, searchVars,
                   repoVars>>

\* The page is reloaded: the component state and the requests in flight are
\* gone, the repository and localStorage stay; App mounts again.
Restart ==
    /\ ~Mounted /\ hist.ops < MaxOps
    /\ vectorData' = None /\ summary' = None /\ error' = None /\ fileName' = ""
    /\ isProcessing' = TRUE /\ precomputedData' = None
    /\ availableStores' = <<>> /\ selectedStoreId' = None
    /\ loadDep' = None /\ vecDep' = None
    /\ pending' = <<MetaTask>>
    /\ hist' = [hist EXCEPT
                  !.ops = @ + 1, !.lastFail = None, !.race = None,
                  !.overlap = FALSE, !.listed = FALSE, !.cleared = None,
                  !.retry = IF hist.lastFail # None /\ Val(hist.lastFail).alone
                               /\ Settled /\ pending = <<>>
                            THEN Some([id |-> Val(hist.lastFail).id,
                                       msg |-> Val(hist.lastFail).msg])
                            ELSE None]
    /\ UNCHANGED <<hint, repo, now, valVars, searchVars, repoVars>>

Next ==
    \/ RunEffects
    \/ \E i \in 1..Len(pending) : MetaDone(i)
    \/ \E i \in 1..Len(pending) : LoadDone(i)
    \/ \E i \in 1..Len(pending) : ReadDone(i)
    \/ \E i \in 1..Len(pending) : SaveDone(i)
    \/ \E i \in 1..Len(pending) : DeleteDone(i)
    \/ \E id \in 1..(NumOld + 1 + MaxTicks) : SelectStore(id)
    \/ \E f \in Files : Upload(f)
    \/ ClearData
    \/ Restart

Spec == Init /\ [][Next]_vars

\* Every request that was issued completes, successfully or with an error,
\* and React runs the effects of every render.
Fairness ==
    /\ WF_vars(RunEffects)
    /\ WF_vars(\E i \in 1..Len(pending) : MetaDone(i))
    /\ WF_vars(\E i \in 1..Len(pending) : LoadDone(i))
    /\ WF_vars(\E i \in 1..Len(pending) : ReadDone(i))
    /\ WF_vars(\E i \in 1..Len(pending) : SaveDone(i))
    /\ WF_vars(\E i \in 1..Len(pending) : DeleteDone(i))

SpecLive == Spec /\ Fairness

(***************************************************************************)
(* SpecRepo: the repository of db.ts called directly, one call after the   *)
(* other (a call's transaction is over before the next call's starts), in  *)
(* any order, with restarts in between.  openOk and reqOk are the          *)
(* storage's answers: indexedDB.open succeeds or fires onerror, the        *)
(* request succeeds or fires onerror.                                      *)
(***************************************************************************)
RepoInputs == {Record("b.json", ContentB), Record("c.json", ContentA)}
\* The ids the calls are made with: NumOld - 1 is never a key, NumOld may be
\* the key of a record of an earlier run, the ids after it are the clock's.
RepoIds == (NumOld - 1)..(NumOld + 1 + MaxTicks)
RepoOld == {Record("a.json", ContentA)}

\* initDB (db.ts 15-44): the cached handle if there is one (17-19), else
\* indexedDB.open, which caches the handle on success (28-31) and rejects on
\* error (23-26).  The first open ever creates the empty object store
\* (33-42); a database of the current version is opened as it is.
initDB(handle, openOk) == [ok |-> handle \/ openOk, db |-> handle \/ openOk]

\* The structured clone store.add writes and store.get reads: a copy built
\* property by property.
cloneValue(v) == [t |-> v.t, n |-> v.n, s |-> v.s, c |-> v.c]
cloneItem(item) ==
    Item(item.kind, cloneValue(item.id), cloneValue(item.source),
         cloneValue(item.text), cloneValue(item.startIndex))
structuredClone(data) ==
    Raw(data.top, [i \in 1..Len(data.items) |-> cloneItem(data.items[i])])

dataToStore_emptyContent(id, name, content) ==
    [id |-> id, fileName |-> name, content |-> Raw("array", <<>>)]

\* const dataToStore = { id, fileName, content } (db.ts 52)
dataToStore(id, name, content) ==
    [id |-> id, fileName |-> name, content |-> content]

storeAdd_put(store, value, reqOk) ==
    IF reqOk
    THEN [ok |-> TRUE,
          store |-> (value.id :> Record(value.fileName,
                                        structuredClone(value.content)))
                    @@ store]
    ELSE [ok |-> FALSE, store |-> store]

\* store.add(dataToStore) with keyPath 'id' (db.ts 40, 53): the request
\* fails when the key is there already, and the store is as it was.
storeAdd(store, value, reqOk) ==
    IF reqOk /\ value.id \notin DOMAIN store
    THEN [ok |-> TRUE,
          store |-> store @@ (value.id :> Record(value.fileName,
                                                 structuredClone(value.content)))]
    ELSE [ok |-> FALSE, store |-> store]

\* store.get(id) and request.result || null (db.ts 81-84)
storeGet(store, id) ==
    IF id \in DOMAIN store
    THEN Some(dataToStore(id, store[id].fileName,
                          structuredClone(store[id].content)))
    ELSE None

storeDelete_keeps(store, id) == store

\* store.delete(id) (db.ts 95): succeeds whether the key is there or not.
storeDelete(store, id) == [k \in DOMAIN store \ {id} |-> store[k]]

\* The ledger is written from what the calls return, never from the store:
\* live says the last create of the id has returned and no delete of it
\* since, restarted that the process was restarted since that create.
Entry(name, content, live, restarted) ==
    [fileName |-> name, content |-> content, live |-> live,
     restarted |-> restarted]
Deleted == Entry("", NoContent, FALSE, FALSE)
Live(l) == {id \in DOMAIN l : l[id].live}
Put(l, id, e) == [k \in DOMAIN l \cup {id} |-> IF k = id THEN e ELSE l[k]]

RepoInit ==
    /\ \E ids \in SUBSET {NumOld} : repo \in [ids -> RepoOld]
    /\ now = NumOld + 1
    /\ db = FALSE /\ call = NoCall
    /\ ledger = [id \in DOMAIN repo |->
                   Entry(repo[id].fileName, repo[id].content, TRUE, TRUE)]
    /\ vectorData = None /\ summary = None /\ error = None /\ fileName = ""
    /\ isProcessing = FALSE /\ precomputedData = None
    /\ availableStores = <<>> /\ selectedStoreId = None
    /\ loadDep = None /\ vecDep = None /\ hint = None
    /\ pending = <<>> /\ hist = <<>>
    /\ ValOff /\ SearchOff

\* indexedDB.open is called only without a cached handle (db.ts 17-21).
OpenAnswers == IF db THEN {TRUE} ELSE BOOLEAN

\* What no repository call touches.
callerVars ==
    <<vectorData, summary, error, fileName, isProcessing, precomputedData,
      availableStores, selectedStoreId, loadDep, vecDep, hint, pending, hist,
      valVars, searchVars>>

\* A call that initDB or the request rejected: no record was touched.
Rejected(op, id) == Call(op, id, id \in DOMAIN repo, TRUE, FALSE, None, <<>>)

\* saveVectorData (db.ts 46-58)
RepoCreate(input) ==
    \E openOk \in OpenAnswers, reqOk \in BOOLEAN, id \in Clock :
       LET o == initDB(db, openOk)
           r == storeAdd(repo, dataToStore(id, input.fileName, input.content),
                         reqOk)
       IN  /\ db' = o.db
           /\ IF ~o.ok
              THEN /\ call' = Rejected("create", 0)
                   /\ UNCHANGED <<repo, now, ledger>>
              ELSE /\ now' = id
                   /\ repo' = r.store
                   /\ call' = Call("create", id, id \in DOMAIN repo, ~reqOk,
                                   r.ok, None, <<>>)
                   /\ ledger' =
                        IF r.ok
                        THEN Put(ledger, id,
                                 Entry(input.fileName, input.content, TRUE,
                                       FALSE))
                        ELSE ledger
           /\ UNCHANGED callerVars

\* getVectorStore (db.ts 76-88)
RepoGet(id) ==
    \E openOk \in OpenAnswers, reqOk \in BOOLEAN :
       LET o == initDB(db, openOk)
       IN  /\ db' = o.db
           /\ call' = IF ~o.ok THEN Rejected("get", id)
                      ELSE Call("get", id, id \in DOMAIN repo, ~reqOk, reqOk,
                                IF reqOk THEN storeGet(repo, id) ELSE None, <<>>)
           /\ UNCHANGED <<repo, now, ledger, callerVars>>

\* deleteVectorStore (db.ts 90-100)
RepoDelete(id) ==
    \E openOk \in OpenAnswers, reqOk \in BOOLEAN :
       LET o == initDB(db, openOk)
       IN  /\ db' = o.db
           /\ IF o.ok /\ reqOk
              THEN /\ repo' = storeDelete(repo, id)
                   /\ call' = Call("delete", id, id \in DOMAIN repo, FALSE, TRUE,
                                   None, <<>>)
                   /\ ledger' = [k \in DOMAIN ledger |->
                                   IF k = id THEN Deleted ELSE ledger[k]]
              ELSE /\ call' = Rejected("delete", id)
                   /\ UNCHANGED <<repo, ledger>>
           /\ UNCHANGED <<now, callerVars>>

\* getAllVectorStoresMeta (db.ts 60-74)
RepoList ==
    \E openOk \in OpenAnswers, reqOk \in BOOLEAN :
       LET o == initDB(db, openOk)
       IN  /\ db' = o.db
           /\ call' = IF o.ok /\ reqOk
                      THEN Call("list", 0, FALSE, FALSE, TRUE, None,
                                getAllVectorStoresMeta(repo))
                      ELSE Rejected("list", 0)
           /\ UNCHANGED <<repo, now, ledger, callerVars>>

\* The process ends and starts again: the module's handle (db.ts 13) is null
\* again and nothing of the caller is left; the database stays.
RepoRestart ==
    /\ db' = FALSE /\ call' = NoCall
    /\ ledger' = [k \in DOMAIN ledger |->
                    IF ledger[k].live THEN [ledger[k] EXCEPT !.restarted = TRUE]
                    ELSE ledger[k]]
    /\ UNCHANGED <<repo, now, callerVars>>

RepoNext ==
    \/ \E input \in RepoInputs : RepoCreate(input)
    \/ \E id \in RepoIds : RepoGet(id)
    \/ \E id \in RepoIds : RepoDelete(id)
    \/ RepoList
    \/ RepoRestart

SpecRepo == RepoInit /\ [][RepoNext]_vars

\* The search a chat message runs (273-284): nothing unless a collection and
\* an index are loaded; performSearch throws when the index has no vector for
\* a chunk, and the message then gets no results.
search(q) ==
    IF vectorData = None \/ precomputedData = None THEN <<>>
    ELSE IF Len(Val(precomputedData).vectors) < Len(Val(vectorData)) THEN <<>>
    ELSE sliceTop(performSearch(q, Val(vectorData), Val(precomputedData).vectors,
                                Val(precomputedData).vocab))

(***************************************************************************)
(* Properties of the store session (Spec)                                  *)
(***************************************************************************)
Quiet == Settled /\ pending = <<>>

\* The failures of a load the claims speak of: the id is absent from the
\* repository, or its content fails validation.
NotFound == "Selected store not found in the database."
AbsentOrInvalid == {NotFound, "Invalid"}

\* C1: when selectStore(b) was issued while the load of another store a was
\* in flight, then once both loads have completed (b's successfully; a's
\* successfully or failing on an absent id or invalid content; in either
\* order) the session holds b's collection, summary and file name and b is
\* the selected id.
C1_StaleLoadIgnored ==
    (/\ hist.race # None /\ Quiet
     /\ Val(hist.race).bRes = "ok"
     /\ Val(hist.race).aRes \in {"ok"} \cup AbsentOrInvalid) =>
        LET b == Val(hist.race).b
        IN  /\ selectedStoreId = Some(b)
            /\ vectorData = Some(repo[b].content.items)
            /\ summary # None /\ Val(summary) \in summaries(repo[b].content.items)
            /\ fileName = repo[b].fileName

\* C2: after a load failed on an absent id or on invalid content the error it
\* reported is still set when the session has settled, until the user's next
\* operation.
C2_ErrorKept ==
    (hist.lastFail # None /\ Val(hist.lastFail).msg \in AbsentOrInvalid /\ Quiet) =>
        error = Err("loading store", Val(hist.lastFail).msg)

\* A load failed with nothing else in flight, nothing was issued since, and
\* the session has settled.
FailedAlone == hist.lastFail # None /\ Val(hist.lastFail).alone /\ Quiet

NothingLoaded ==
    /\ vectorData = None /\ summary = None /\ precomputedData = None
    /\ selectedStoreId = None

\* C3 as claimed: after a load failed (absent id, invalid content) with
\* nothing else in flight the settled session holds no collection, summary or
\* index, selects no id and has no hint, and a restart does not select the
\* failed id again.
C3_FailedLoadNotRetried ==
    /\ (FailedAlone /\ Val(hist.lastFail).msg \in AbsentOrInvalid) =>
          NothingLoaded /\ hint = None
    /\ (hist.retry # None /\ Val(hist.retry).msg \in AbsentOrInvalid) =>
          selectedStoreId # Some(Val(hist.retry).id)

\* C3 as amended: after a load failed with nothing else in flight the settled
\* session holds no collection, summary or index, selects no id and has no
\* hint; a restart selects the failed id again only as the newest store of
\* the repository's list (the startup fallback of line 144).
C3_FailedLoadClears ==
    /\ FailedAlone => NothingLoaded /\ hint = None
    /\ (hist.retry # None /\ selectedStoreId = Some(Val(hist.retry).id)) =>
          /\ availableStores = getAllVectorStoresMeta(repo)
          /\ availableStores[1].id = Val(hist.retry).id
          /\ \A k \in 1..Len(availableStores) :
                availableStores[k].id <= Val(hist.retry).id

\* A load failed on invalid content with nothing else in flight and the
\* session has settled.
C3_Witness == FailedAlone /\ Val(hist.lastFail).msg = "Invalid"

\* C4: an upload whose content is unparsable or fails validation issues no
\* repository create: no save request carries content that is not well
\* formed, so every record createAndSelect has put into the repository is
\* well formed.
C4_OnlyValidCreated ==
    /\ \A i \in 1..Len(pending) :
          pending[i].kind = "save" => WellFormed(pending[i].content)
    /\ \A id \in hist.created :
          id \in DOMAIN repo => WellFormed(repo[id].content)

\* An upload was rejected by validation after another had created a record.
C4_Witness ==
    /\ error = Err("upload", "Error processing file: Invalid")
    /\ hist.created # {} /\ pending = <<>>

Failed == error # None /\ Val(error).at \in {"loading store", "upload"}

\* C5: while a load is in flight or the last selection failed, a search
\* returns no results for any query.
C5_NoResultsUnlessReady ==
    (LoadInFlight \/ Failed) => \A q \in SessionQueries : search(q) = <<>>

(***************************************************************************)
(* Properties of validateAndProcessData (SpecVal)                          *)
(***************************************************************************)
\* C6: validate returns a collection exactly when the input is an array whose
\* elements are all non-null objects with string id, source, text and numeric
\* startIndex; then the collection is the whole input in order; otherwise it
\* throws and returns no collection (never a valid prefix).
C6_ValidateIffWellFormed ==
    outcome # None =>
        /\ Val(outcome).ok <=> WellFormed(raw)
        /\ Val(outcome).ok => Val(outcome).processedData = raw.items
        /\ ~Val(outcome).ok =>
              Val(outcome).processedData = <<>> /\ Val(outcome).thrown # <<>>

\* An input with a valid first element is rejected at a later element.
C6_Witness ==
    /\ outcome # None /\ ~Val(outcome).ok
    /\ raw.top = "array" /\ Val(outcome).thrown[1] > 1

\* C7: every chunk of an accepted collection has string id, source and text
\* and a startIndex that is a non-negative integer.
C7_AcceptedChunksTyped ==
    (outcome # None /\ Val(outcome).ok) =>
        \A i \in 1..Len(Val(outcome).processedData) :
            LET c == Val(outcome).processedData[i]
            IN  /\ c.id.t = "string" /\ c.source.t = "string"
                /\ c.text.t = "string"
                /\ c.startIndex.t = "number" /\ c.startIndex.n >= 0

DistinctSources(data) == {data[i].source.s : i \in 1..Len(data)}
Occurrences(data, src) == Cardinality({i \in 1..Len(data) : data[i].source.s = src})
FirstSeen(data, src) == CHOOSE i \in 1..Len(data) :
    data[i].source.s = src /\ \A j \in 1..(i - 1) : data[j].source.s # src

RECURSIVE SumTextLengths(_)
SumTextLengths(data) ==
    IF data = <<>> THEN 0 ELSE Len(Head(data).text.c) + SumTextLengths(Tail(data))

\* C8: for an accepted input totalChunks is the number of chunks,
\* uniqueSources the number of distinct source values (whatever the source
\* strings are) and totalTextLength the sum of the text lengths.
C8_SummaryCounts ==
    (outcome # None /\ Val(outcome).ok) =>
        LET data == Val(outcome).processedData
            sm == Val(outcome).summaryData
        IN  /\ sm.totalChunks = Len(data)
            /\ sm.uniqueSources = Cardinality(DistinctSources(data))
            /\ sm.totalTextLength = SumTextLengths(data)

\* C9: for an accepted input topSources holds the (at most 10) sources with
\* the highest chunk counts, each with its count, in descending order of
\* count, equal counts in first-encountered order.
C9_TopSourcesOrder ==
    (outcome # None /\ Val(outcome).ok) =>
        LET data == Val(outcome).processedData
            top == Val(outcome).summaryData.topSources
        IN  /\ Len(top) = Min(TopN, Cardinality(DistinctSources(data)))
            /\ \A i \in 1..Len(top) :
                  /\ top[i].source \in DistinctSources(data)
                  /\ top[i].count = NumCount(Occurrences(data, top[i].source))
            /\ \A i, j \in 1..Len(top) : i < j =>
                  \/ Occurrences(data, top[i].source) > Occurrences(data, top[j].source)
                  \/ /\ Occurrences(data, top[i].source) = Occurrences(data, top[j].source)
                     /\ FirstSeen(data, top[i].source) < FirstSeen(data, top[j].source)
            /\ \A src \in DistinctSources(data) :
                  (\A i \in 1..Len(top) : top[i].source # src) =>
                      \A i \in 1..Len(top) :
                          Occurrences(data, src) <= Occurrences(data, top[i].source)

(***************************************************************************)
(* Properties of performSearch (SpecSearch)                                *)
(***************************************************************************)
\* C10: a search returns at most 3 results, every returned score is > 0 and
\* the scores are in non-increasing order.
C10_SearchBounded ==
    results # None =>
        LET rs == Val(results)
        IN  /\ Len(rs) <= 3
            /\ \A i \in 1..Len(rs) : ScorePositive(rs[i].score)
            /\ \A i \in 1..(Len(rs) - 1) : ~ScoreLess(rs[i].score, rs[i + 1].score)

\* Four chunks score above 0, three are returned and their scores differ.
C10_Witness ==
    /\ results # None /\ index # None /\ Len(Val(results)) = 3
    /\ Cardinality({i \in 1..Len(chunks) :
          ScorePositive(cosineSimilarity(
              createTfVector(tokenize(query), Val(index).vocab),
              Val(index).vectors[i]))}) >= 4
    /\ ScoreLess(Val(results)[3].score, Val(results)[1].score)

\* The score of chunk i for the query last searched, on the built index.
scoreAt(i) ==
    cosineSimilarity(createTfVector(tokenize(query), Val(index).vocab),
                     Val(index).vectors[i])

\* The chunks whose score for the query last searched is greater than 0.
Matching == {i \in 1..Len(chunks) : ScorePositive(scoreAt(i))}

\* Chunk i comes before chunk j: a higher score, or an equal score and an
\* earlier place in the collection.
RankedBefore(i, j) ==
    \/ ScoreLess(scoreAt(j), scoreAt(i))
    \/ ScoreEqual(scoreAt(i), scoreAt(j)) /\ i < j

\* C11: for a non-blank query the results are the first 3 of the chunks
\* with a score greater than 0 in descending order of score, chunks of equal
\* score in collection order: the k-th result is the matching chunk that
\* exactly k - 1 matching chunks come before, with its score.
C11_RankedTopThree ==
    (results # None /\ ~isBlank(query)) =>
        LET rs == Val(results)
        IN  /\ Len(rs) = Min(3, Cardinality(Matching))
            /\ \A k \in 1..Len(rs) :
                  /\ rs[k].at \in Matching
                  /\ Cardinality({j \in Matching : RankedBefore(j, rs[k].at)}) = k - 1
                  /\ rs[k].chunk = chunks[rs[k].at]
                  /\ rs[k].score = scoreAt(rs[k].at)

\* Four chunks match, the second and third result have the same score, lower
\* than the first, and a chunk of that score is cut off.
C11_Witness ==
    /\ results # None /\ ~isBlank(query) /\ Len(Val(results)) = 3
    /\ Cardinality(Matching) = 4
    /\ ScoreEqual(Val(results)[2].score, Val(results)[3].score)
    /\ ScoreLess(Val(results)[2].score, Val(results)[1].score)
    /\ \E i \in Matching :
          /\ ScoreEqual(scoreAt(i), Val(results)[3].score)
          /\ \A k \in 1..3 : Val(results)[k].at # i

\* The documented example was searched with the query "fox".
ExampleSearched ==
    chunks = ExampleCollection /\ query = <<"f", "o", "x">> /\ results # None

\* C12 as claimed: for the collection [a: "red fox", b: "blue sky"] the
\* search "fox" returns exactly chunk a, with score 1.0.
C12_ExampleScoreOne ==
    ExampleSearched =>
        /\ Len(Val(results)) = 1
        /\ Val(results)[1].chunk = ExampleCollection[1]
        /\ ScoreIsOne(Val(results)[1].score)

\* C12 as amended: for the collection [a: "red fox", b: "blue sky"] the
\* search "fox" returns exactly chunk a, with score 1 / sqrt(2) as the code
\* computes it (the double 0.7071067811865475, one unit in the last place
\* below the nearest); chunk b has score 0 and is not returned.
C12_ExampleScore ==
    ExampleSearched =>
        /\ Val(results) = <<[chunk |-> ExampleCollection[1],
                             score |-> Score(1, 2, 0 - 1), at |-> 1]>>
        /\ ScoreEqual(scoreAt(2), ScoreZero)

\* The example was searched and gave one result.
C12_Witness == ExampleSearched /\ Len(Val(results)) = 1

\* The set of tokens of chunk i.
TokensOf(i) ==
    {tokenize(chunks[i].text.c)[k] : k \in 1..Len(tokenize(chunks[i].text.c))}

\* Chunk i has tokens and none of them occurs in another chunk.
TokensUnique(i) ==
    /\ TokensOf(i) # {}
    /\ \A j \in 1..Len(chunks) : j # i => TokensOf(i) \cap TokensOf(j) = {}

\* C13: searching with the text of a chunk whose tokens occur in no other
\* chunk returns that chunk as the first result, with score 1.0.
C13_SelfQueryScoreOne ==
    \A i \in 1..Len(chunks) :
        (results # None /\ query = chunks[i].text.c /\ TokensUnique(i)) =>
            /\ Len(Val(results)) >= 1
            /\ Val(results)[1].at = i
            /\ ScoreIsOne(Val(results)[1].score)

\* No token of the query last searched is in the vocabulary.
AllTokensUnknown ==
    \A k \in 1..Len(tokenize(query)) :
        tokenize(query)[k] \notin DOMAIN Val(index).vocab

\* C14: a query that is empty or only whitespace gives no results and no
\* query vector is built for it; a query none of whose tokens is in the
\* vocabulary gives no results.
C14_BlankOrUnknownQuery ==
    results # None =>
        /\ (\A k \in 1..Len(query) : query[k] \in WhiteSpace) =>
              Val(results) = <<>> /\ queryVector = None
        /\ AllTokensUnknown => Val(results) = <<>>

\* A query of one unknown token was searched on a vocabulary that is not
\* empty: a query vector was built and nothing was returned.
C14_Witness ==
    /\ results # None /\ query = <<"f", "o", "x">> /\ queryVector # None
    /\ DOMAIN Val(index).vocab # {} /\ Val(results) = <<>>

RECURSIVE TokensUpTo(_)
\* The tokens of chunks 1..k, in collection order and order of occurrence.
TokensUpTo(k) ==
    IF k = 0 THEN <<>> ELSE TokensUpTo(k - 1) \o tokenize(chunks[k].text.c)

AllTokens == TokensUpTo(Len(chunks))
DistinctTokens == {AllTokens[p] : p \in 1..Len(AllTokens)}
FirstOccurrence(t) ==
    CHOOSE p \in 1..Len(AllTokens) :
        AllTokens[p] = t /\ \A r \in 1..(p - 1) : AllTokens[r] # t

\* C16: after build the vocabulary holds exactly the distinct tokens of the
\* collection, with the indices 0, 1, 2, ... in the order in which the
\* tokens are first seen (chunks in collection order, tokens in order of
\* occurrence): no gaps, no index twice.
C16_VocabularyFirstSeen ==
    index # None =>
        LET vocab == Val(index).vocab
        IN  /\ DOMAIN vocab = DistinctTokens
            /\ {vocab[t] : t \in DOMAIN vocab} = 0..(Cardinality(DistinctTokens) - 1)
            /\ \A t, u \in DOMAIN vocab : t # u => vocab[t] # vocab[u]
            /\ \A t, u \in DOMAIN vocab :
                  FirstOccurrence(t) < FirstOccurrence(u) => vocab[t] < vocab[u]

\* An index was built over three distinct tokens, one of them first seen in
\* the first chunk and seen again in a later chunk.
C16_Witness ==
    /\ index # None /\ Cardinality(DistinctTokens) = 3 /\ Len(chunks) >= 3
    /\ \E p \in 1..Len(AllTokens) :
          p > Len(tokenize(chunks[1].text.c)) /\ AllTokens[p] = AllTokens[1]

\* How often token t occurs in chunk i.
OccurrencesIn(i, t) ==
    Cardinality({k \in 1..Len(tokenize(chunks[i].text.c)) :
                    tokenize(chunks[i].text.c)[k] = t})

RECURSIVE SumEntries(_)
SumEntries(vector) ==
    IF vector = <<>> THEN 0 ELSE Head(vector) + SumEntries(Tail(vector))

\* C17: after build there is one term vector per chunk, as long as the
\* vocabulary; its entry at a token's index is the number of occurrences of
\* the token in the chunk (0 for a token not in the chunk), and its entries
\* sum to the number of tokens of the chunk.
C17_TermVectors ==
    index # None =>
        LET vocab == Val(index).vocab
            vectors == Val(index).vectors
        IN  /\ Len(vectors) = Len(chunks)
            /\ \A i \in 1..Len(chunks) :
                  /\ Len(vectors[i]) = Cardinality(DOMAIN vocab)
                  /\ \A t \in DOMAIN vocab :
                        vectors[i][vocab[t] + 1] = OccurrencesIn(i, t)
                  /\ SumEntries(vectors[i]) = Len(tokenize(chunks[i].text.c))

\* An index was built in which a chunk holds one token twice and lacks
\* another token of the vocabulary.
C17_Witness ==
    /\ index # None
    /\ \E i \in 1..Len(chunks) :
          /\ \E p \in 1..Len(Val(index).vectors[i]) : Val(index).vectors[i][p] = 2
          /\ \E p \in 1..Len(Val(index).vectors[i]) : Val(index).vectors[i][p] = 0


(***************************************************************************)
(* The repository (db.ts), under SpecRepo                                  *)
(***************************************************************************)
LiveRecord(id) ==
    Some([id |-> id, fileName |-> ledger[id].fileName,
          content |-> ledger[id].content])

\* C18: once create(fileName, content) has returned id, and until
\* delete(id) has been called, every get(id) that the storage does not fail
\* returns the record with that id, that fileName and a content equal to
\* the original, also after the process was restarted.
C18_CreateGetRoundTrip ==
    (call.op = "get" /\ ~call.fault /\ call.id \in Live(ledger)) =>
       call.ok /\ call.record = LiveRecord(call.id)

\* get returns a record that was created and has seen a restart since.
C18_Witness ==
    /\ call.op = "get" /\ call.ok /\ call.id \in Live(ledger)
    /\ call.id > NumOld /\ ledger[call.id].restarted
    /\ call.record # None /\ Val(call.record).content = ContentB

\* C19: a create that succeeds returns an id that was not a key of the
\* repository before the call, and a create whose timestamp is the id of an
\* existing record fails and leaves that record as it was.
C19_CreateNeverOverwrites ==
    [][call'.op = "create" =>
          /\ call'.ok => call'.id \notin DOMAIN repo
          /\ call'.id \in DOMAIN repo =>
                /\ ~call'.ok
                /\ call'.id \in DOMAIN repo'
                /\ repo'[call'.id] = repo[call'.id]]_vars

\* A create lost to a record of the same clock tick, made in this behaviour
\* with another file name, on a storage that was working.
C19_Witness ==
    /\ call.op = "create" /\ call.existed /\ ~call.fault /\ ~call.ok
    /\ call.id \in Live(ledger) /\ call.id > NumOld
    /\ repo[call.id].fileName = "b.json"

\* C20: after delete(id) has returned, get(id) returns null and the list
\* has no entry for id; delete of an id that is not in the repository
\* succeeds and leaves the repository as it was; get of an id that never
\* existed returns null (in each case unless the storage fails the call).
C20_DeleteThenAbsent ==
    [][/\ (call'.op = "delete" /\ ~call'.fault) =>
             /\ call'.ok /\ call'.id \notin DOMAIN repo'
             /\ call'.id \notin DOMAIN repo => repo' = repo
       /\ (call'.op = "get" /\ ~call'.fault /\ call'.id \notin Live(ledger')) =>
             call'.ok /\ call'.record = None
       /\ (call'.op = "list" /\ ~call'.fault) =>
             /\ call'.ok
             /\ \A i \in 1..Len(call'.stores) :
                   call'.stores[i].id \in Live(ledger')]_vars

\* get returns null for an id that was created and then deleted.
C20_Witness ==
    /\ call.op = "get" /\ call.ok /\ call.record = None
    /\ call.id \in DOMAIN ledger /\ ~ledger[call.id].live
    /\ call.id > NumOld


\* C21: after any sequence of create and delete calls, a list that the
\* storage does not fail returns one {id, fileName} entry for each record
\* that is in the repository and no other entry, in strictly descending
\* order of id.
C21_ListExactDescending ==
    (call.op = "list" /\ ~call.fault) =>
       /\ call.ok
       /\ Len(call.stores) = Cardinality(DOMAIN repo)
       /\ \A id \in DOMAIN repo :
             \E i \in 1..Len(call.stores) :
                call.stores[i] = [id |-> id, fileName |-> repo[id].fileName]
       /\ \A i \in 1..Len(call.stores) : call.stores[i].id \in DOMAIN repo
       /\ \A i \in 1..(Len(call.stores) - 1) :
             call.stores[i].id > call.stores[i + 1].id

\* A list of two records created in this behaviour, after the record of an
\* earlier run was deleted.
C21_Witness ==
    /\ call.op = "list" /\ call.ok /\ Len(call.stores) = 2
    /\ \E id \in DOMAIN ledger : ~ledger[id].live
    /\ \A i \in 1..2 : call.stores[i].id > NumOld


(***************************************************************************)
(* Deleting the active store (Spec)                                        *)
(***************************************************************************)
Newest(ids) == CHOOSE m \in ids : \A k \in ids : k <= m
Listed(id) == \E k \in 1..Len(availableStores) : availableStores[k].id = id

\* The session holds the record id of the repository: collection, summary,
\* file name and an index built from the collection.
Holds(id) ==
    /\ id \in DOMAIN repo
    /\ vectorData = Some(repo[id].content.items)
    /\ summary # None /\ Val(summary) \in summaries(repo[id].content.items)
    /\ fileName = repo[id].fileName
    /\ precomputedData = Some(precomputeVectors(repo[id].content.items))

Empty == NothingLoaded /\ fileName = ""

\* C22: when a delete of the active store has succeeded and the session has
\* settled, the record is in neither the repository nor the session's list;
\* if other records remain, the one with the largest id is selected and
\* loaded (or its load has failed), otherwise the session is Empty and the
\* hint is removed.
C22_DeleteSelectsNewest ==
    (hist.cleared # None /\ Val(hist.cleared).ok /\ hist.listed /\ Quiet) =>
       LET id == Val(hist.cleared).id
       IN  /\ id \notin DOMAIN repo /\ ~Listed(id)
           /\ IF DOMAIN repo # {}
              THEN \/ /\ selectedStoreId = Some(Newest(DOMAIN repo))
                      /\ Holds(Newest(DOMAIN repo))
                   \/ /\ hist.lastFail # None
                      /\ Val(hist.lastFail).id = Newest(DOMAIN repo)
              ELSE Empty /\ hint = None


\* The step is the completion of a delete that failed.
DeleteFailed ==
    /\ \E i \in 1..Len(pending) :
          pending[i].kind = "delete" /\ pending' = Remove(pending, i)
    /\ hist'.ops = hist.ops
    /\ hist'.cleared # None /\ ~Val(hist'.cleared).ok

\* C23: when the delete issued by deleteActive fails, the error is reported
\* and nothing else of the session changes: the selected id, the collection,
\* its summary, file name and index, the store list (the store still in it),
\* the hint and the repository are what they were.
C23_FailedDeleteKeepsSession ==
    [][DeleteFailed =>
          /\ error' = Err("clearing local storage", "Unknown error")
          /\ UNCHANGED <<selectedStoreId, vectorData, summary, fileName,
                         precomputedData, availableStores, hint, repo,
                         isProcessing>>
          /\ Listed(Val(hist'.cleared).id) =>
                \E k \in 1..Len(availableStores') :
                   availableStores'[k].id = Val(hist'.cleared).id]_vars

\* A delete of the loaded store has failed: the error is shown, the store is
\* still selected, loaded and listed.
C23_Witness ==
    /\ hist.cleared # None /\ ~Val(hist.cleared).ok /\ Quiet
    /\ error = Err("clearing local storage", "Unknown error")
    /\ selectedStoreId = Some(Val(hist.cleared).id)
    /\ Holds(Val(hist.cleared).id) /\ Listed(Val(hist.cleared).id)


(***************************************************************************)
(* The index a search uses (Spec)                                          *)
(***************************************************************************)
\* The search panel is rendered (464, 531): VectorSearch gets the chunks and
\* the index of this render, and its effect runs handleSearch whenever one
\* of them changed (VectorSearch.tsx 33-44), before App's own effects.
PanelShown ==
    /\ ~isProcessing /\ vectorData # None /\ summary # None
    /\ precomputedData # None /\ Len(Val(vectorData)) > 0

\* handleSendMessage gets to performSearch (275, 283): an event handler, so
\* the effects of the render have run.
ChatCanSearch == Settled /\ vectorData # None /\ precomputedData # None

\* C24: whenever a search is executed, from the panel or from chat, the index
\* it uses was built from the collection it ranks: one term vector per
\* chunk, and the vocabulary and vectors precomputeVectors gives for it.
C24_IndexBuiltFromCollection ==
    (PanelShown \/ ChatCanSearch) =>
       /\ Len(Val(precomputedData).vectors) = Len(Val(vectorData))
       /\ Val(precomputedData) = precomputeVectors(Val(vectorData))


(***************************************************************************)
(* The settled session (Spec)                                              *)
(***************************************************************************)
\* C25: whenever no operation is in flight, a store id is selected exactly
\* when a collection with its summary and index is loaded, and the loaded
\* collection is the content of the repository record with the selected id
\* (also after an upload was rejected by validation while a store was
\* selected).
C25_SelectedIffLoaded ==
    Quiet =>
       /\ selectedStoreId # None <=>
             (vectorData # None /\ summary # None /\ precomputedData # None)
       /\ selectedStoreId # None => Holds(Val(selectedStoreId))


\* C26: whenever no operation is in flight (and the session has received the
\* list at startup), the session's list of stores is the repository's
\* listMetadata: the same ids and file names, descending by id.
C26_ListMatchesRepository ==
    (Quiet /\ hist.listed) => availableStores = getAllVectorStoresMeta(repo)


(***************************************************************************)
(* Startup and the last-selected hint (Spec)                               *)
(***************************************************************************)
\* The step is loadFromDB receiving the list after a mount.
StartupListed == ~hist.listed /\ hist'.listed

\* The store startup has to select: the hinted one if the repository lists
\* it, otherwise the newest, none when the repository is empty.
StartupChoice ==
    IF hint # None /\ Val(hint) \in DOMAIN repo THEN hint
    ELSE IF DOMAIN repo # {} THEN Some(Newest(DOMAIN repo))
    ELSE None

StartupSelection ==
    [][StartupListed =>
          /\ selectedStoreId' = StartupChoice
          /\ DOMAIN repo = {} =>
                /\ vectorData' = None /\ summary' = None
                /\ precomputedData' = None /\ pending' = <<>>]_vars

\* C27 as claimed: startup selects the hinted store if the repository lists
\* it, otherwise the newest, and nothing when the repository is empty; and
\* whenever the hint is present and no operation is in flight (the list
\* having been received), it is the selected id.
C27_HintPresentIsSelected ==
    /\ StartupSelection
    /\ []((Quiet /\ hist.listed /\ hint # None) => selectedStoreId = hint)

\* C27 as amended: the same startup rule; and whenever a store is selected
\* and no operation is in flight, the hint is present and is the selected id
\* (a hint can be present with nothing selected).
C27_SelectedIsHinted ==
    /\ StartupSelection
    /\ []((Quiet /\ selectedStoreId # None) => hint = selectedStoreId)

\* Startup has selected and loaded the hinted store, which is not the newest
\* of the list.
C27_Witness ==
    /\ Quiet /\ hist.ops = 0 /\ hint # None /\ selectedStoreId = hint
    /\ Holds(Val(hint)) /\ availableStores[1].id # Val(hint)


(***************************************************************************)
(* Termination (SpecLive)                                                  *)
(***************************************************************************)
FlagDownWhenSettled == Quiet => ~isProcessing

\* C28: if every request and file read completes, every operation settles:
\* the session gets to a state with nothing in flight, isProcessing is false
\* there, whatever the path (success, unreadable, unparsable or invalid
\* file, storage error, absent id), and it becomes true again only by the
\* user's next operation.
C28_OperationsSettle ==
    /\ ~Quiet ~> Quiet
    /\ []FlagDownWhenSettled
    /\ [][(Quiet /\ isProcessing') => hist'.ops = hist.ops + 1]_vars

\* A session settled with the flag down after an operation of the user
\* failed: a rejected or unreadable upload, or a failed delete.
C28_Witness ==
    /\ Quiet /\ ~isProcessing /\ hist.ops > 0
    /\ error # None /\ Val(error).at \in {"upload", "clearing local storage"}

====
